---- MODULE Spec2Model ----
(***************************************************************************)
(* Model of setup.py of hgdb-circt: CMakeBuild.build_extension, the step   *)
(* that stages the pre-built binaries of build/bin into the extension      *)
(* output directory.                                                       *)
(*                                                                         *)
(* The filesystem is the part of the disk the step reads or writes:        *)
(*   fs.bin    : build/bin, name -> entry   (read by isfile and copy)      *)
(*   fs.extdir : whether the output directory exists                       *)
(*   fs.ext    : the output directory, name -> entry                       *)
(* An entry is absent, a directory, or a regular file with some content.   *)
(* Platform I/O failures (permissions, full disk, a directory standing     *)
(* where a destination file is written) are not modelled: the code does    *)
(* not handle them and they propagate from the library calls.              *)
(***************************************************************************)
EXTENDS Naturals, Sequences, FiniteSets

VARIABLES
    fs,        \* the filesystem
    binaries,  \* the list the loop iterates (line 33), here as names
    pc,        \* position in build_extension: start, check, copy, done, failed
    i,         \* index of the loop of line 34 into binaries
    run,       \* number of the current invocation of build_extension
    fs0,       \* history: the filesystem when the current invocation started
    copied,    \* history: names copied by the current invocation
    prev       \* history: outcome and filesystem of the previous invocation

vars == <<fs, binaries, pc, i, run, fs0, copied, prev>>

\* ---------------------------------------------------------------- bounds
MaxData == 2   \* distinct file contents
MaxRuns == 2   \* invocations of build_extension on the same filesystem

\* ---------------------------------------------------------------- data
binary_names == <<"circt-opt", "firtool">>

\* the dead local of line 31: named, never staged
bins == <<"hgdb-rtl">>

BinarySet == {binary_names[k] : k \in 1..Len(binary_names)}

Names == BinarySet \cup {bins[k] : k \in 1..Len(bins)}

Absent == [kind |-> "absent", data |-> 0]

Directory == [kind |-> "dir", data |-> 0]

RegularFile(d) == [kind |-> "file", data |-> d]

Files == {RegularFile(d) : d \in 1..MaxData}

\* what may stand at build/bin/<name>
SourceEntries == {Absent, Directory} \cup Files

\* what may stand at <extdir>/<name>
DestEntries == {Absent} \cup Files

EmptyDir == [n \in Names |-> Absent]

\* the orders in which the fixed names can be listed
Orders ==
    LET N == Len(binary_names)
        P == {p \in [1..N -> 1..N] : \A a, b \in 1..N : a # b => p[a] # p[b]}
    IN  {[k \in 1..N |-> binary_names[p[k]]] : p \in P}

\* os.path.join(root_dir, "build", "bin", name)
BinPath(name) == <<"build", "bin", name>>

\* the file name shutil.copy gives the copy inside a directory
Basename(path) == path[Len(path)]

\* ---------------------------------------------------------------- file operations
\* os.path.exists(extdir)
Exists(f) == f.extdir

\* a creation that leaves the directory missing
MakeDirsNothing(f) == f

\* os.makedirs(extdir)
MakeDirs(f) == [f EXCEPT !.extdir = TRUE]

\* a source check that accepts anything that exists
IsFileAnyKind(f, path) == f.bin[Basename(path)].kind # "absent"

\* os.path.isfile(binary)
IsFile(f, path) == f.bin[Basename(path)].kind = "file"

\* a copy that leaves an existing destination file alone
CopyKeepExisting(f, path) ==
    IF f.ext[Basename(path)].kind = "absent"
    THEN [f EXCEPT !.ext[Basename(path)] = f.bin[Basename(path)]]
    ELSE f

\* a copy that removes the source (a move)
CopyAsMove(f, path) ==
    [f EXCEPT !.ext[Basename(path)] = f.bin[Basename(path)],
              !.bin[Basename(path)] = Absent]

\* a copy that always lands under the first binary's name
CopyToFirstName(f, path) ==
    [f EXCEPT !.ext[binary_names[1]] = f.bin[Basename(path)]]

\* shutil.copy(binary, extdir)
Copy(f, path) == [f EXCEPT !.ext[Basename(path)] = f.bin[Basename(path)]]

\* ---------------------------------------------------------------- the step as a function
\* the loop of lines 34-36 from index k on
RECURSIVE CopyLoop(_, _, _)
CopyLoop(list, k, f) ==
    IF k > Len(list) THEN [outcome |-> "done", fs |-> f]
    ELSE IF ~IsFile(f, BinPath(list[k])) THEN [outcome |-> "failed", fs |-> f]
    ELSE CopyLoop(list, k + 1, Copy(f, BinPath(list[k])))

\* a loop that skips a missing binary instead of failing
RECURSIVE CopyLoopSkipMissing(_, _, _)
CopyLoopSkipMissing(list, k, f) ==
    IF k > Len(list) THEN [outcome |-> "done", fs |-> f]
    ELSE IF ~IsFile(f, BinPath(list[k])) THEN CopyLoopSkipMissing(list, k + 1, f)
    ELSE CopyLoopSkipMissing(list, k + 1, Copy(f, BinPath(list[k])))

BuildExtensionSkipMissing(list, f) ==
    CopyLoopSkipMissing(list, 1, IF Exists(f) THEN f ELSE MakeDirs(f))

\* build_extension with the list `list` on filesystem f: outcome and final filesystem
BuildExtension(list, f) ==
    CopyLoop(list, 1, IF Exists(f) THEN f ELSE MakeDirs(f))

\* ---------------------------------------------------------------- initial states
Init ==
    /\ fs \in [bin : [Names -> SourceEntries],
               extdir : BOOLEAN,
               ext : [Names -> DestEntries]]
    /\ ~fs.extdir => fs.ext = EmptyDir
    /\ binaries \in Orders
    /\ pc = "start"
    /\ i = 1
    /\ run = 1
    /\ fs0 = fs
    /\ copied = {}
    /\ prev = [outcome |-> "none", fs |-> fs]

\* ---------------------------------------------------------------- actions
\* a creation step that fails on an existing directory
ExtdirPresentRaises ==
    /\ pc = "start"
    /\ Exists(fs)
    /\ pc' = "failed"
    /\ UNCHANGED <<fs, binaries, i, run, fs0, copied, prev>>

\* lines 27-28 when the directory is missing: it is created
ExtdirMissing ==
    /\ pc = "start"
    /\ ~Exists(fs)
    /\ fs' = MakeDirs(fs)
    /\ pc' = "check"
    /\ UNCHANGED <<binaries, i, run, fs0, copied, prev>>

\* line 27 when the directory exists: makedirs is not called
ExtdirPresent ==
    /\ pc = "start"
    /\ Exists(fs)
    /\ pc' = "check"
    /\ UNCHANGED <<fs, binaries, i, run, fs0, copied, prev>>

\* line 34: the list is exhausted, build_extension returns
LoopEnd ==
    /\ pc = "check"
    /\ i > Len(binaries)
    /\ pc' = "done"
    /\ UNCHANGED <<fs, binaries, i, run, fs0, copied, prev>>

\* line 35: the assertion holds
AssertPass ==
    /\ pc = "check"
    /\ i <= Len(binaries)
    /\ IsFile(fs, BinPath(binaries[i]))
    /\ pc' = "copy"
    /\ UNCHANGED <<fs, binaries, i, run, fs0, copied, prev>>

\* a failed check that is passed over: the loop goes on to the next name
AssertFailSkips ==
    /\ pc = "check"
    /\ i <= Len(binaries)
    /\ ~IsFile(fs, BinPath(binaries[i]))
    /\ i' = i + 1
    /\ UNCHANGED <<fs, binaries, pc, run, fs0, copied, prev>>

\* line 35: the assertion fails, AssertionError leaves build_extension
AssertFail ==
    /\ pc = "check"
    /\ i <= Len(binaries)
    /\ ~IsFile(fs, BinPath(binaries[i]))
    /\ pc' = "failed"
    /\ UNCHANGED <<fs, binaries, i, run, fs0, copied, prev>>

\* line 36, then the next iteration
CopyBinary ==
    /\ pc = "copy"
    /\ fs' = Copy(fs, BinPath(binaries[i]))
    /\ copied' = copied \cup {binaries[i]}
    /\ i' = i + 1
    /\ pc' = "check"
    /\ UNCHANGED <<binaries, run, fs0, prev>>

\* the packaging tool runs the build step again on the filesystem left behind
Rerun ==
    /\ pc \in {"done", "failed"}
    /\ run < MaxRuns
    /\ prev' = [outcome |-> pc, fs |-> fs]
    /\ fs0' = fs
    /\ run' = run + 1
    /\ pc' = "start"
    /\ i' = 1
    /\ copied' = {}
    /\ UNCHANGED <<fs, binaries>>

Next ==
    \/ ExtdirMissing
    \/ ExtdirPresent
    \/ LoopEnd
    \/ AssertPass
    \/ AssertFail
    \/ CopyBinary
    \/ Rerun

Spec == Init /\ [][Next]_vars

TypeOK ==
    /\ fs.bin \in [Names -> SourceEntries]
    /\ fs.extdir \in BOOLEAN
    /\ pc \in {"start", "check", "copy", "done", "failed"}
    /\ i \in 1..(Len(binaries) + 1)
    /\ run \in 1..MaxRuns
    /\ copied \subseteq BinarySet

\* ---------------------------------------------------------------- auxiliary definitions of the properties
Terminal == pc \in {"done", "failed"}

\* whether build/bin/<n> held a regular file when the invocation started
Present(n) == fs0.bin[n].kind = "file"

\* index in list order of the first name without a regular file, Len + 1 if none
FirstMissing ==
    LET M == {k \in 1..Len(binaries) : ~Present(binaries[k])}
    IN  IF M = {} THEN Len(binaries) + 1
        ELSE CHOOSE k \in M : \A m \in M : k <= m

Before(k) == {binaries[m] : m \in 1..(k - 1)}

FromOn(k) == {binaries[m] : m \in k..Len(binaries)}

FilesIn(dir) == {n \in Names : dir[n].kind # "absent"}

\* ---------------------------------------------------------------- C1
\* C1 as stated: when the step fails because some build/bin/<name> is
\* missing, no file of the list has been copied into the destination.
C1_NoCopyBeforeFailure ==
    pc = "failed" => copied = {} /\ fs.ext = fs0.ext

\* C1 amended: the step fails at the first missing name in list order, and
\* neither that name nor any later name is ever copied (their destination
\* entries stay as they were); names listed before it may have been copied.
C1_NoCopyFromFirstMissingOn ==
    /\ \A n \in FromOn(FirstMissing) : n \notin copied /\ fs.ext[n] = fs0.ext[n]
    /\ pc = "failed" => i = FirstMissing /\ i <= Len(binaries)
    /\ pc = "failed" /\ FirstMissing = 1 => copied = {} /\ fs.ext = fs0.ext

\* the example of the spec: names [a, b], only a present, the step has failed
C1_Witness ==
    /\ pc = "failed"
    /\ binaries = binary_names
    /\ fs0.bin[binary_names[1]].kind = "file"
    /\ fs0.bin[binary_names[2]].kind = "absent"
    /\ binary_names[1] \in copied

\* ---------------------------------------------------------------- C2
\* C2: whenever build_extension completes successfully, the destination
\* holds, for every name of binary_names, a regular file whose content is
\* that of build/bin/<name>.
C2_CopyFidelity ==
    pc = "done" =>
        \A n \in BinarySet :
            /\ fs.ext[n].kind = "file"
            /\ fs.ext[n] = fs0.bin[n]
            /\ fs.ext[n] = fs.bin[n]

C2_Witness ==
    /\ pc = "done"
    /\ run = 1
    /\ fs.ext[binary_names[1]] # fs.ext[binary_names[2]]
    /\ fs0.ext[binary_names[1]] = fs0.ext[binary_names[2]]

\* ---------------------------------------------------------------- C3
\* C3: if some name of the list has no regular file at build/bin/<name>
\* (absent, or a directory), the invocation never succeeds; it fails at the
\* first such name, having checked no later name, and after the failure it
\* takes no further step: nothing is checked, copied or retried (the only
\* step from a failed invocation is a fresh invocation by the caller).
C3_MissingArtifactAbort ==
    /\ []((\E n \in BinarySet : ~Present(n)) => pc # "done")
    /\ [](pc = "failed" => i = FirstMissing /\ binaries[i] \notin copied)
    /\ [][pc = "failed" =>
            /\ run' = run + 1
            /\ pc' = "start"
            /\ fs' = fs]_vars

C3_Witness ==
    /\ pc = "failed"
    /\ i = 1
    /\ fs.bin[binaries[1]].kind = "dir"
    /\ fs.bin[binaries[2]].kind = "file"
    /\ fs.ext[binaries[2]] # fs.bin[binaries[2]]

\* ---------------------------------------------------------------- C4
\* C4: a second invocation on the filesystem the first one left, with the
\* same list and sources, ends with the same outcome and the same
\* filesystem as the first; an existing destination makes it fail never.
C4_Idempotent ==
    run > 1 /\ Terminal => pc = prev.outcome /\ fs = prev.fs

C4_Witness ==
    /\ run = 2
    /\ pc = "done"
    /\ prev.outcome = "done"
    /\ copied = BinarySet

\* ---------------------------------------------------------------- C5
\* C5: a missing destination directory is created by the first step and
\* exists from then on, also when a later check fails; an existing one is
\* left as it is, its contents unchanged, and the step does not fail.
C5_DirectoryCreated ==
    /\ [](pc # "start" => fs.extdir)
    /\ [][pc = "start" =>
            /\ pc' = "check"
            /\ fs'.extdir
            /\ fs'.ext = fs.ext
            /\ fs.extdir => fs' = fs]_vars

C5_Witness ==
    /\ pc = "failed"
    /\ run = 1
    /\ ~fs0.extdir
    /\ fs.extdir

\* ---------------------------------------------------------------- C6
\* C6: with every listed binary present and the destination initially
\* missing or empty, a successful invocation leaves in the destination
\* exactly the files named in the list.
C6_ExactContents ==
    pc = "done" /\ fs0.ext = EmptyDir => FilesIn(fs.ext) = BinarySet

C6_Witness ==
    /\ pc = "done"
    /\ ~fs0.extdir
    /\ FilesIn(fs.ext) = {"circt-opt", "firtool"}

\* ---------------------------------------------------------------- C7
\* C7: copying over an existing destination file replaces its content by
\* the source's and does not fail; after success no listed destination file
\* keeps a pre-run content that differs from the source.
C7_Overwrite ==
    /\ [](\A n \in copied : fs.ext[n] = fs.bin[n])
    /\ [](pc = "done" =>
            \A n \in BinarySet :
                fs0.ext[n].kind = "file" /\ fs0.ext[n] # fs0.bin[n]
                    => fs.ext[n] # fs0.ext[n])
    /\ [][pc = "copy" => pc' = "check" /\ binaries[i] \in copied']_vars

C7_Witness ==
    /\ pc = "done"
    /\ \E n \in BinarySet :
        /\ fs0.ext[n].kind = "file"
        /\ fs0.ext[n] # fs0.bin[n]
        /\ fs.ext[n] = fs0.bin[n]

\* ---------------------------------------------------------------- C8
\* C8 as stated: for every order of the list, build_extension on the same
\* initial filesystem ends with the same outcome and the same final
\* filesystem.
C8_OrderIndependent ==
    Terminal =>
        \A q \in Orders : BuildExtension(q, fs0) = [outcome |-> pc, fs |-> fs]

\* C8 amended: for every order of the list the outcome is the same, and on
\* success so is the final filesystem; on failure the final destination
\* depends on the order (it holds the names listed before the first missing
\* one).
C8_OutcomeOrderIndependent ==
    Terminal =>
        /\ BuildExtension(binaries, fs0) = [outcome |-> pc, fs |-> fs]
        /\ \A q \in Orders :
            /\ BuildExtension(q, fs0).outcome = pc
            /\ pc = "done" => BuildExtension(q, fs0).fs = fs

C8_Witness ==
    /\ pc = "failed"
    /\ \E q \in Orders :
        /\ BuildExtension(q, fs0).outcome = "failed"
        /\ BuildExtension(q, fs0).fs # fs

\* ---------------------------------------------------------------- C9
\* C9: when the invocation fails on a missing binary, the names it has
\* copied are exactly those listed before the first missing name: each of
\* them is in the destination with the source's content, and no name at or
\* after the first missing one has been written.
C9_PrefixOnFailure ==
    pc = "failed" =>
        /\ copied = Before(FirstMissing)
        /\ \A n \in Before(FirstMissing) : fs.ext[n] = fs0.bin[n]
        /\ \A n \in Names \ Before(FirstMissing) : fs.ext[n] = fs0.ext[n]

C9_Witness ==
    /\ pc = "failed"
    /\ FirstMissing = 2
    /\ copied = {binaries[1]}
    /\ fs.bin[binaries[2]].kind = "dir"
    /\ fs.ext[binaries[1]] # fs0.ext[binaries[1]]

\* ---------------------------------------------------------------- C10
\* C10: in every state of an invocation build/bin is as it was at its start
\* (and as the previous invocation left it), a destination directory that
\* existed still exists, and every destination entry other than the listed
\* names copied so far is as it was at the start.
C10_Frame ==
    /\ fs.bin = fs0.bin
    /\ fs.bin = prev.fs.bin
    /\ fs0.extdir => fs.extdir
    /\ \A n \in Names \ copied : fs.ext[n] = fs0.ext[n]
    /\ copied \subseteq BinarySet

C10_Witness ==
    /\ Terminal
    /\ copied # {}
    /\ fs0.ext["hgdb-rtl"].kind = "file"
    /\ fs0.bin["hgdb-rtl"].kind = "file"
    /\ fs.ext # fs0.ext

====
